---- MODULE Spec2Model ----
(***************************************************************************)
(* Model of the JWT manager of jwt-blacklist-go (internal/auth/jwt.go):    *)
(* issuance of access/refresh pairs, verification, refresh and blacklisting*)
(* against a Redis store of expiring keys, on a wall clock counted in      *)
(* ticks.                                                                  *)
(*                                                                         *)
(* Assumptions of the model, where the code calls code that is not part of *)
(* the repository:                                                         *)
(*  - golang-jwt v5: ParseWithClaims decodes the three segments, looks up  *)
(*    the method, calls the keyfunc, verifies the signature and only then  *)
(*    validates the claims (exp: valid iff now < exp); NewNumericDate      *)
(*    truncates to whole seconds.                                          *)
(*  - go-redis v8 Set: expiration 0 stores the key without expiry, a       *)
(*    positive expiration is sent with the SET command.                    *)
(*  - Redis: a key set at server time T with expiry p is visible at the    *)
(*    clock values T .. T+p-1; the tick is the unit in which Redis keeps   *)
(*    expiry times (the rounding of go-redis and Redis to milliseconds is  *)
(*    below the resolution of the model).                                  *)
(*  - the manager and Redis read the same, non-decreasing clock.           *)
(*  - crypto/rand: rand.Read succeeds and never returns the same salt      *)
(*    twice; argon2.IDKey is collision free and panics when the number of  *)
(*    rounds or the parallelism is below 1.                                *)
(***************************************************************************)
EXTENDS Integers, Sequences, FiniteSets, TLC

VARIABLES
    now,        \* the wall clock, in ticks
    config,     \* config.Config: the two token lifetimes
    redisUp,    \* whether the Redis server answers
    store,      \* Redis keys blacklist:<jti>: jti -> expiry time or NoExpiry
    issues,     \* results of the GenerateTokens calls, in order
    mints,      \* results of the successful RefreshToken calls, in order
    revoked,    \* tokens for which BlacklistToken has returned nil
    last,       \* the last manager call that issued, renewed or revoked
    gor,        \* goroutines inside generateTokenId: position, timestamp, ids made
    pwd,        \* password hashing: records made, salts drawn, last verification
    userStore   \* the user repository: username -> user, and the writes made to it

vars ==
    <<now, config, redisUp, store, issues, mints, revoked, last, gor, pwd, userStore>>

----------------------------------------------------------------------------
(* Bounds of the model *)

\* ticks of the clock per second
TicksPerSecond == 2
\* last clock value explored
MaxTime == 6
\* how far the clock may advance between the first and the last clock read
\* of one manager call
MaxDrift == 1
\* number of GenerateTokens calls of one session
MaxLogins == 1
\* number of GenerateTokens calls (devices) of one user
MaxIssues == 2
\* goroutines calling generateTokenId concurrently
NumGoroutines == 2
\* calls of generateTokenId per goroutine (GenerateTokens makes two)
MaxIds == 2
\* number of HashPassword calls
MaxHashes == 2
\* number of successful RefreshToken calls
MaxRefreshes == 1
\* number of successful Update and Delete calls on the user repository
MaxWrites == 1
\* number of successful Create, Update and Delete calls on a repository on its own
MaxRepoWrites == 3

Second == TicksPerSecond
Hour == 3600 * Second

Min(a, b) == IF a < b THEN a ELSE b

----------------------------------------------------------------------------
(* Configuration, users, errors *)

JWTSecret == "test-secret-key"

\* the lifetimes a run is configured with
Configs ==
    { [AccessTokenExpiration |-> 1 * Second, RefreshTokenExpiration |-> 2 * Second],
      [AccessTokenExpiration |-> 2 * Second, RefreshTokenExpiration |-> 3 * Second] }

Users ==
    { [ID |-> 1, Username |-> "admin", Role |-> "admin"],
      [ID |-> 2, Username |-> "user", Role |-> "user"] }

NoUser == [ID |-> 0, Username |-> "", Role |-> ""]

Nil == "nil"
ErrInvalidToken == "invalid token"
ErrTokenExpired == "token expired"
ErrTokenBlacklisted == "token blacklisted"
ErrNotRefresh == "not a refresh token"
ErrParseClaims == "could not parse token claims"
\* the error go-redis returns when the server cannot be reached
ErrRedis == "redis: connection refused"
\* BlacklistToken dereferences a nil *jwt.Token
Panic == "panic: nil pointer dereference"

----------------------------------------------------------------------------
(* config.NewConfig.  A duration string is kept as its number and its unit: *)
(* "15m" is [n |-> 15, unit |-> "m"].                                       *)

Duration(n, unit) == [n |-> n, unit |-> unit]

\* os.Getenv of a variable that is not set: the empty string
Unset == Duration(0, "")

\* the units time.ParseDuration knows, in ticks; the units below the
\* millisecond are below the resolution of the clock
UnitTicks(n, unit) ==
    CASE unit = "h" -> n * Hour
      [] unit = "m" -> n * 60 * Second
      [] unit = "s" -> n * Second
      [] unit = "ms" -> (n * Second) \div 1000
      [] unit \in {"us", "ns"} -> 0

\* time.ParseDuration: the duration, or 0 and an error
ParseDuration(str) ==
    IF str = Unset THEN [d |-> 0, err |-> "time: invalid duration"]
    ELSE IF str.unit \in {"h", "m", "s", "ms", "us", "ns"}
    THEN [d |-> UnitTicks(str.n, str.unit), err |-> Nil]
    ELSE [d |-> 0, err |-> "time: unknown unit"]

\* getEnv(key, defaultValue) in the environment env
getEnv(env, key, defaultValue) == IF env[key] = Unset THEN defaultValue ELSE env[key]

\* no variable set
NoEnv == [ACCESS_TOKEN_EXPIRATION |-> Unset, REFRESH_TOKEN_EXPIRATION |-> Unset]

\* the environments of a run: nothing set, docker-compose.yml, and the week
\* written in hours
Envs ==
    { NoEnv,
      [ACCESS_TOKEN_EXPIRATION |-> Duration(15, "m"),
       REFRESH_TOKEN_EXPIRATION |-> Duration(7, "d")],
      [ACCESS_TOKEN_EXPIRATION |-> Duration(15, "m"),
       REFRESH_TOKEN_EXPIRATION |-> Duration(168, "h")] }

\* NewConfig(): the errors of time.ParseDuration are discarded
NewConfig(env) ==
    LET accessExpStr == getEnv(env, "ACCESS_TOKEN_EXPIRATION", Duration(15, "m"))
        refreshExpStr == getEnv(env, "REFRESH_TOKEN_EXPIRATION", Duration(7, "d"))
    IN [AccessTokenExpiration |-> ParseDuration(accessExpStr).d,
        RefreshTokenExpiration |-> ParseDuration(refreshExpStr).d]

----------------------------------------------------------------------------
(* Tokens *)

\* claims.ExpiresAt == nil
NoExp == -1

NoJti == [ts |-> -1, rnd |-> 0]

\* generateTokenId: the hex SHA-256 of the hexadecimal UnixNano timestamp
\* followed by randomBytes, eight bytes that are allocated and never filled.
\* The digest is kept as its preimage (SHA-256 taken as injective).
generateTokenId(ts) == [ts |-> ts, rnd |-> 0]

\* jwt.NewNumericDate: the time truncated to jwt.TimePrecision (one second)
NewNumericDate(t) == t - (t % Second)

JWTClaims(user, jti, type, exp, iat) ==
    [UserID |-> user.ID, Username |-> user.Username, Role |-> user.Role,
     TokenID |-> jti, TokenType |-> type, ExpiresAt |-> exp, IssuedAt |-> iat]

NoClaims ==
    [UserID |-> 0, Username |-> "", Role |-> "",
     TokenID |-> NoJti, TokenType |-> "", ExpiresAt |-> NoExp, IssuedAt |-> NoExp]

\* HMAC-SHA256 of header and claims under a key, kept as its inputs
HMAC(key, alg, claims) == [key |-> key, alg |-> alg, claims |-> claims]

NoSig == HMAC("", "", NoClaims)

\* jwt.NewWithClaims(jwt.SigningMethodHS256, claims).SignedString(key)
SignedString(claims, key) ==
    [form |-> "jwt", alg |-> "HS256", claims |-> claims,
     sig |-> HMAC(key, "HS256", claims)]

\* a string that has not three dot-separated segments
Malformed == [form |-> "malformed", alg |-> "", claims |-> NoClaims, sig |-> NoSig]
\* three segments, of which header or claims do not decode
Undecodable == [form |-> "undecodable", alg |-> "", claims |-> NoClaims, sig |-> NoSig]
\* the empty string of an error return
NoToken == [form |-> "", alg |-> "", claims |-> NoClaims, sig |-> NoSig]

HMACFamily == {"HS256", "HS384", "HS512"}
KnownAlgs == HMACFamily \cup {"none", "RS256"}

\* an HMAC check that recomputes the MAC with the key the signature was made
\* with instead of the key given
MethodVerifyAnyKey(tok, key) ==
    /\ tok.alg \in HMACFamily
    /\ tok.sig = HMAC(tok.sig.key, tok.alg, tok.claims)

\* token.Method.Verify(text, signature, key) with key = []byte(secret):
\* the HMAC methods compare the MAC, "none" accepts only the key
\* UnsafeAllowNoneSignatureType, RS256 refuses a []byte key
MethodVerify(tok, key) ==
    /\ tok.alg \in HMACFamily
    /\ tok.sig = HMAC(key, tok.alg, tok.claims)

\* validator.Validate: exp is the only registered claim set; valid iff now < exp
ClaimsValidAt(claims, t) == claims.ExpiresAt = NoExp \/ t < claims.ExpiresAt

\* jwt.ParseWithClaims(tokenString, &JWTClaims{}, keyfunc) at clock value t.
\* hmacOnly: the keyfunc refuses a method that is not *jwt.SigningMethodHMAC
\* (VerifyToken's keyfunc does, BlacklistToken's does not).
\* token: "nil" (no *Token), "empty" (a *Token without claims), "claims"
ParseWithClaims(tok, hmacOnly, t) ==
    IF tok.form = "malformed"
    THEN [token |-> "nil", valid |-> FALSE, err |-> "ErrTokenMalformed"]
    ELSE IF tok.form = "undecodable"
    THEN [token |-> "empty", valid |-> FALSE, err |-> "ErrTokenMalformed"]
    ELSE IF tok.alg \notin KnownAlgs
    THEN [token |-> "claims", valid |-> FALSE, err |-> "ErrTokenUnverifiable"]
    ELSE IF hmacOnly /\ tok.alg \notin HMACFamily
    THEN [token |-> "claims", valid |-> FALSE, err |-> "ErrTokenUnverifiable"]
    ELSE IF ~MethodVerify(tok, JWTSecret)
    THEN [token |-> "claims", valid |-> FALSE, err |-> "ErrTokenSignatureInvalid"]
    ELSE IF ~ClaimsValidAt(tok.claims, t)
    THEN [token |-> "claims", valid |-> FALSE, err |-> "ErrTokenExpired"]
    ELSE [token |-> "claims", valid |-> TRUE, err |-> Nil]

----------------------------------------------------------------------------
(* The Redis store *)

NoExpiry == -1

\* Redis keyIsExpired: a key with an expiry is gone once the clock reaches it
keyIsExpired(when, t) == when # NoExpiry /\ t >= when

\* the keys still present at clock value t
Expire(st, t) ==
    LET live == {k \in DOMAIN st : ~keyIsExpired(st[k], t)}
    IN [k \in live |-> st[k]]

\* redisCache.Set(ctx, key, "1", ttl) processed by the server at clock value t:
\* SET key 1 [PX ttl]; with expiration 0 the key persists
RedisSet(st, key, ttl, t) ==
    LET when == IF ttl > 0 THEN t + ttl ELSE NoExpiry
    IN [k \in DOMAIN st \cup {key} |-> IF k = key THEN when ELSE st[k]]

\* redisCache.Exists(ctx, key).Result() > 0, at server clock value t
RedisExists(st, key, t) == key \in DOMAIN st /\ ~keyIsExpired(st[key], t)

----------------------------------------------------------------------------
(* Manager operations as functions of the clock values they read *)

\* IsTokenBlacklisted comparing the EXISTS count with 1 instead of 0
IsTokenBlacklistedMoreThanOne(jti, t) ==
    IF ~redisUp THEN [result |-> FALSE, err |-> ErrRedis]
    ELSE [result |-> FALSE, err |-> Nil]

\* IsTokenBlacklisted(jti), the server answering at clock value t
IsTokenBlacklisted(jti, t) ==
    IF ~redisUp THEN [result |-> FALSE, err |-> ErrRedis]
    ELSE [result |-> RedisExists(store, jti, t), err |-> Nil]

\* VerifyToken without the errors.Is(err, jwt.ErrTokenExpired) branch
VerifyResultNoExpiredBranch(tok, tv, tx) ==
    LET p == ParseWithClaims(tok, TRUE, tv) IN
    IF p.err # Nil \/ ~p.valid THEN [claims |-> NoClaims, err |-> ErrInvalidToken]
    ELSE LET b == IsTokenBlacklisted(tok.claims.TokenID, tx) IN
         IF b.err # Nil THEN [claims |-> NoClaims, err |-> b.err]
         ELSE IF b.result THEN [claims |-> NoClaims, err |-> ErrTokenBlacklisted]
         ELSE [claims |-> tok.claims, err |-> Nil]

\* VerifyToken discarding the error of IsTokenBlacklisted
VerifyResultIgnoringStoreError(tok, tv, tx) ==
    LET p == ParseWithClaims(tok, TRUE, tv) IN
    IF p.err # Nil
    THEN [claims |-> NoClaims,
          err |-> IF p.err = "ErrTokenExpired" THEN ErrTokenExpired ELSE ErrInvalidToken]
    ELSE IF ~p.valid
    THEN [claims |-> NoClaims, err |-> ErrInvalidToken]
    ELSE LET b == IsTokenBlacklisted(tok.claims.TokenID, tx) IN
         IF b.result THEN [claims |-> NoClaims, err |-> ErrTokenBlacklisted]
         ELSE [claims |-> tok.claims, err |-> Nil]

\* VerifyToken asking the store before it parses the token
VerifyCallStoreFirst(tok, tv, tx) ==
    LET p == ParseWithClaims(tok, TRUE, tv)
        b == IsTokenBlacklisted(tok.claims.TokenID, tx)
    IN IF b.err # Nil THEN [claims |-> NoClaims, err |-> b.err, requests |-> 1]
       ELSE IF b.result
       THEN [claims |-> NoClaims, err |-> ErrTokenBlacklisted, requests |-> 1]
       ELSE IF p.err # Nil
       THEN [claims |-> NoClaims,
             err |-> IF p.err = "ErrTokenExpired" THEN ErrTokenExpired ELSE ErrInvalidToken,
             requests |-> 1]
       ELSE IF ~p.valid
       THEN [claims |-> NoClaims, err |-> ErrInvalidToken, requests |-> 1]
       ELSE [claims |-> tok.claims, err |-> Nil, requests |-> 1]

\* the steps of VerifyToken(tok): the claims are validated at tv, the store
\* answers at tx; requests: the number of commands sent to the store
VerifyCall(tok, tv, tx) ==
    LET p == ParseWithClaims(tok, TRUE, tv) IN
    IF p.err # Nil
    THEN [claims |-> NoClaims,
          err |-> IF p.err = "ErrTokenExpired" THEN ErrTokenExpired ELSE ErrInvalidToken,
          requests |-> 0]
    ELSE IF ~p.valid
    THEN [claims |-> NoClaims, err |-> ErrInvalidToken, requests |-> 0]
    ELSE LET b == IsTokenBlacklisted(tok.claims.TokenID, tx) IN
         IF b.err # Nil THEN [claims |-> NoClaims, err |-> b.err, requests |-> 1]
         ELSE IF b.result
         THEN [claims |-> NoClaims, err |-> ErrTokenBlacklisted, requests |-> 1]
         ELSE [claims |-> tok.claims, err |-> Nil, requests |-> 1]

\* VerifyToken(tok): the claims and the error it returns
VerifyResult(tok, tv, tx) ==
    LET c == VerifyCall(tok, tv, tx) IN [claims |-> c.claims, err |-> c.err]

\* the clock values one call reads: n reads, the first at the current clock
\* value, each no earlier than the one before
Reads(n) ==
    {r \in [1..n -> now..Min(now + MaxDrift, MaxTime)] :
        /\ r[1] = now
        /\ \A i \in 1..(n - 1) : r[i] <= r[i + 1]}

\* the clock values of a call during which the clock does not advance
Still(n) == [i \in 1..n |-> now]

IssuedTokens ==
    {issues[i].access : i \in 1..Len(issues)}
        \cup {issues[i].refresh : i \in 1..Len(issues)}
        \cup {mints[i].access : i \in 1..Len(mints)}

\* what a client without the secret can make of a token it holds
Tampered(tok) ==
    { [tok EXCEPT !.sig = HMAC("attacker-key", tok.alg, tok.claims)],
      [tok EXCEPT !.alg = "none", !.sig = NoSig],
      [tok EXCEPT !.alg = "RS256"],
      [tok EXCEPT !.claims.ExpiresAt = @ + Hour],
      [tok EXCEPT !.claims.TokenType = IF @ = "access" THEN "refresh" ELSE "access"] }

\* every header algorithm put on the claims of a token, or on those claims
\* with the role raised or the expiry moved, with the signature the token
\* had, none, or the HMAC of the new header and claims under the secret or
\* under another key
Forged(tok) ==
    {[tok EXCEPT !.alg = a, !.claims = c, !.sig = sg] :
        a \in KnownAlgs,
        c \in {tok.claims, [tok.claims EXCEPT !.Role = "admin"],
                [tok.claims EXCEPT !.ExpiresAt = @ + Hour]},
        sg \in {tok.sig, NoSig}} \cup
    {[tok EXCEPT !.alg = a, !.claims = c, !.sig = HMAC(k, a, c)] :
        a \in KnownAlgs,
        c \in {tok.claims, [tok.claims EXCEPT !.Role = "admin"],
                [tok.claims EXCEPT !.ExpiresAt = @ + Hour]},
        k \in {JWTSecret, "attacker-key"}}

\* the strings a caller may present
Presentable ==
    IssuedTokens \cup UNION {Tampered(tok) : tok \in IssuedTokens}
        \cup {Malformed, Undecodable}

----------------------------------------------------------------------------
(* Manager operations, continued *)

\* GenerateTokens(user). Clock reads r: access jti, access exp, access iat,
\* refresh jti, refresh exp, refresh iat.
GenerateTokensResult(user, r) ==
    LET accessJti == generateTokenId(r[1])
        accessClaims ==
            JWTClaims(user, accessJti, "access",
                      NewNumericDate(r[2] + config.AccessTokenExpiration),
                      NewNumericDate(r[3]))
        refreshJti == generateTokenId(r[4])
        refreshClaims ==
            JWTClaims(user, refreshJti, "refresh",
                      NewNumericDate(r[5] + config.RefreshTokenExpiration),
                      NewNumericDate(r[6]))
    IN [access |-> SignedString(accessClaims, JWTSecret),
        refresh |-> SignedString(refreshClaims, JWTSecret)]

\* RefreshToken answering ErrInvalidToken to a token of the wrong type
RefreshResultWrongTypeIsInvalid(tok, r) ==
    LET res == VerifyResult(tok, r[1], r[2])
        accessClaims ==
            [UserID |-> res.claims.UserID, Username |-> res.claims.Username,
             Role |-> res.claims.Role, TokenID |-> generateTokenId(r[3]),
             TokenType |-> "access",
             ExpiresAt |-> NewNumericDate(r[4] + config.AccessTokenExpiration),
             IssuedAt |-> NewNumericDate(r[5])]
    IN IF res.err # Nil THEN [token |-> NoToken, err |-> res.err]
       ELSE IF res.claims.TokenType # "refresh"
       THEN [token |-> NoToken, err |-> ErrInvalidToken]
       ELSE [token |-> SignedString(accessClaims, JWTSecret), err |-> Nil]

\* RefreshToken minting also from a refresh token that VerifyToken reports
\* as blacklisted
RefreshResultIgnoringBlacklisted(tok, r) ==
    LET res == VerifyResult(tok, r[1], r[2])
        accessClaims ==
            [UserID |-> tok.claims.UserID, Username |-> tok.claims.Username,
             Role |-> tok.claims.Role, TokenID |-> generateTokenId(r[3]),
             TokenType |-> "access",
             ExpiresAt |-> NewNumericDate(r[4] + config.AccessTokenExpiration),
             IssuedAt |-> NewNumericDate(r[5])]
    IN IF res.err # Nil /\ res.err # ErrTokenBlacklisted
       THEN [token |-> NoToken, err |-> res.err]
       ELSE IF tok.claims.TokenType # "refresh"
       THEN [token |-> NoToken, err |-> ErrNotRefresh]
       ELSE [token |-> SignedString(accessClaims, JWTSecret), err |-> Nil]

\* RefreshToken taking the role from the user repository instead of the
\* claims of the refresh token
RefreshResultFreshLookup(tok, r) ==
    LET res == VerifyResult(tok, r[1], r[2])
        known == res.claims.Username \in DOMAIN userStore.Users
        accessClaims ==
            [UserID |-> res.claims.UserID, Username |-> res.claims.Username,
             Role |-> IF known THEN userStore.Users[res.claims.Username].Role ELSE "",
             TokenID |-> generateTokenId(r[3]),
             TokenType |-> "access",
             ExpiresAt |-> NewNumericDate(r[4] + config.AccessTokenExpiration),
             IssuedAt |-> NewNumericDate(r[5])]
    IN IF res.err # Nil THEN [token |-> NoToken, err |-> res.err]
       ELSE IF res.claims.TokenType # "refresh"
       THEN [token |-> NoToken, err |-> ErrNotRefresh]
       ELSE [token |-> SignedString(accessClaims, JWTSecret), err |-> Nil]

\* RefreshToken(tok). Clock reads r: those of VerifyToken, then the new jti,
\* exp and iat.
RefreshResult(tok, r) ==
    LET res == VerifyResult(tok, r[1], r[2])
        accessJti == generateTokenId(r[3])
        accessClaims ==
            [UserID |-> res.claims.UserID, Username |-> res.claims.Username,
             Role |-> res.claims.Role, TokenID |-> accessJti,
             TokenType |-> "access",
             ExpiresAt |-> NewNumericDate(r[4] + config.AccessTokenExpiration),
             IssuedAt |-> NewNumericDate(r[5])]
    IN IF res.err # Nil THEN [token |-> NoToken, err |-> res.err]
       ELSE IF res.claims.TokenType # "refresh"
       THEN [token |-> NoToken, err |-> ErrNotRefresh]
       ELSE [token |-> SignedString(accessClaims, JWTSecret), err |-> Nil]

\* BlacklistToken without the test of token.Valid: the claims of any token
\* that decodes are used
BlacklistResultWithoutValidTest(tok, r) ==
    LET p == ParseWithClaims(tok, FALSE, r[1])
        exp == tok.claims.ExpiresAt
        ttl == IF exp # NoExp THEN exp - r[2] ELSE 24 * Hour
    IN IF p.token = "nil"
       THEN [err |-> Panic, writes |-> FALSE, ttl |-> 0]
       ELSE IF p.token # "claims"
       THEN [err |-> ErrParseClaims, writes |-> FALSE, ttl |-> 0]
       ELSE IF exp # NoExp /\ ttl < 0
       THEN [err |-> Nil, writes |-> FALSE, ttl |-> ttl]
       ELSE IF ~redisUp
       THEN [err |-> ErrRedis, writes |-> FALSE, ttl |-> ttl]
       ELSE [err |-> Nil, writes |-> TRUE, ttl |-> ttl]

\* BlacklistToken with a fallback of one hour for a token without exp
BlacklistResultHourFallback(tok, r) ==
    LET p == ParseWithClaims(tok, FALSE, r[1])
        exp == tok.claims.ExpiresAt
        ttl == IF exp # NoExp THEN exp - r[2] ELSE 1 * Hour
    IN IF p.token = "nil"
       THEN [err |-> Panic, writes |-> FALSE, ttl |-> 0]
       ELSE IF p.token # "claims" \/ ~p.valid
       THEN [err |-> ErrParseClaims, writes |-> FALSE, ttl |-> 0]
       ELSE IF exp # NoExp /\ ttl < 0
       THEN [err |-> Nil, writes |-> FALSE, ttl |-> ttl]
       ELSE IF ~redisUp
       THEN [err |-> ErrRedis, writes |-> FALSE, ttl |-> ttl]
       ELSE [err |-> Nil, writes |-> TRUE, ttl |-> ttl]

\* BlacklistToken(tok). Clock reads r: claims validation, time.Until, the
\* server's clock when it processes SET. writes: whether SET reaches the store.
BlacklistResult(tok, r) ==
    LET p == ParseWithClaims(tok, FALSE, r[1])
        exp == tok.claims.ExpiresAt
        ttl == IF exp # NoExp THEN exp - r[2] ELSE 24 * Hour
    IN IF p.token = "nil"
       THEN [err |-> Panic, writes |-> FALSE, ttl |-> 0]
       ELSE IF p.token # "claims" \/ ~p.valid
       THEN [err |-> ErrParseClaims, writes |-> FALSE, ttl |-> 0]
       ELSE IF exp # NoExp /\ ttl < 0
       THEN [err |-> Nil, writes |-> FALSE, ttl |-> ttl]
       ELSE IF ~redisUp
       THEN [err |-> ErrRedis, writes |-> FALSE, ttl |-> ttl]
       ELSE [err |-> Nil, writes |-> TRUE, ttl |-> ttl]

Goroutines == 1..NumGoroutines

----------------------------------------------------------------------------
(* The access gate: middleware Authenticate and RequireRole, as functions of *)
(* the request and of the clock values VerifyToken reads.                    *)

StatusOK == 200
StatusUnauthorized == 401
StatusForbidden == 403
StatusBadRequest == 400
StatusInternalServerError == 500

\* the Authorization header of a request: absent, not "Bearer <token>", or
\* "Bearer <token>"
Requests ==
    {[header |-> "", tok |-> NoToken], [header |-> "Basic", tok |-> NoToken]}
        \cup {[header |-> "Bearer", tok |-> tok] : tok \in Presentable}

\* the request is answered without the next handler being called
Abort(status, message) ==
    [next |-> FALSE, status |-> status, message |-> message, user |-> NoClaims]

\* Authenticate without the test of claims.TokenType
AuthenticateAnyType(req, tv, tx) ==
    IF req.header = ""
    THEN Abort(StatusUnauthorized, "missing authorization header")
    ELSE IF req.header # "Bearer"
    THEN Abort(StatusUnauthorized, "invalid authorization header format")
    ELSE LET res == VerifyResult(req.tok, tv, tx) IN
         IF res.err = ErrInvalidToken THEN Abort(StatusUnauthorized, "invalid token")
         ELSE IF res.err = ErrTokenExpired THEN Abort(StatusUnauthorized, "token expired")
         ELSE IF res.err = ErrTokenBlacklisted
         THEN Abort(StatusUnauthorized, "token has been revoked")
         ELSE IF res.err # Nil THEN Abort(StatusUnauthorized, res.err)
         ELSE [next |-> TRUE, status |-> StatusOK, message |-> "", user |-> res.claims]

\* Authenticate: c.Set("user", claims) and the next handler, or 401
Authenticate(req, tv, tx) ==
    IF req.header = ""
    THEN Abort(StatusUnauthorized, "missing authorization header")
    ELSE IF req.header # "Bearer"
    THEN Abort(StatusUnauthorized, "invalid authorization header format")
    ELSE LET res == VerifyResult(req.tok, tv, tx) IN
         IF res.err = ErrInvalidToken THEN Abort(StatusUnauthorized, "invalid token")
         ELSE IF res.err = ErrTokenExpired THEN Abort(StatusUnauthorized, "token expired")
         ELSE IF res.err = ErrTokenBlacklisted
         THEN Abort(StatusUnauthorized, "token has been revoked")
         ELSE IF res.err # Nil THEN Abort(StatusUnauthorized, res.err)
         ELSE IF res.claims.TokenType # "access"
         THEN Abort(StatusUnauthorized, "invalid token type")
         ELSE [next |-> TRUE, status |-> StatusOK, message |-> "", user |-> res.claims]

\* RequireRole(role) on a request whose context holds user (NoClaims: none)
RequireRole(role, user) ==
    IF user = NoClaims
    THEN Abort(StatusUnauthorized, "user not authenticated")
    ELSE IF user.Role # role
    THEN Abort(StatusForbidden, "insufficient permissions")
    ELSE [next |-> TRUE, status |-> StatusOK, message |-> "", user |-> user]

\* the admin group registered without the Authenticate middleware before it
AdminRouteWithoutAuthenticate(req, tv, tx) == RequireRole("admin", NoClaims)

\* GET /api/admin/dashboard: Authenticate, then RequireRole("admin"), then
\* the handler
AdminRoute(req, tv, tx) ==
    LET a == Authenticate(req, tv, tx) IN
    IF ~a.next THEN a ELSE RequireRole("admin", a.user)

----------------------------------------------------------------------------
(* Password records (models.HashPassword, VerifyPassword, decodeHash).       *)
(* A string is kept as the sequence of the fields its '$' characters         *)
(* separate: "$argon2id$v=19" is <<"", "argon2id", "v=19">>.                 *)

defaultParams ==
    [Memory |-> 64 * 1024, Iterations |-> 3, Parallelism |-> 2,
     SaltLength |-> 16, KeyLength |-> 32]

Passwords == {"", "admin123", "user123"}

MaxUint8 == 255

\* byte strings: the empty one, the n-th salt rand.Read returns, a derived key
NoBytes == [pw |-> "", salt |-> 0, m |-> 0, t |-> 0, p |-> 0, len |-> 0]
Salt(n) == [pw |-> "", salt |-> n, m |-> 0, t |-> 0, p |-> 0,
            len |-> defaultParams.SaltLength]

\* argon2.IDKey(password, salt, time, memory, threads, keyLen), where it does
\* not panic
IDKey(password, salt, t, m, p, keyLen) ==
    [pw |-> password, salt |-> salt.salt, m |-> m, t |-> t, p |-> p, len |-> keyLen]

\* fields of a string: literal text, "m=..,t=..,p=..", base64 of a byte string
TextField(text) == [kind |-> text, m |-> 0, t |-> 0, p |-> 0, bytes |-> NoBytes]
ParamsField(m, t, p) == [kind |-> "params", m |-> m, t |-> t, p |-> p, bytes |-> NoBytes]
B64Field(bytes) == [kind |-> "b64", m |-> 0, t |-> 0, p |-> 0, bytes |-> bytes]

\* HashPassword with a salt that is never filled
HashPasswordZeroSalt(password, n) ==
    LET dp == defaultParams
        hash == IDKey(password, NoBytes, dp.Iterations, dp.Memory, dp.Parallelism,
                      dp.KeyLength)
    IN << TextField(""), TextField("argon2id"), TextField("v=19"),
          ParamsField(dp.Memory, dp.Iterations, dp.Parallelism),
          B64Field(NoBytes), B64Field(hash) >>

\* HashPassword(password), rand.Read returning the n-th salt
HashPasswordResult(password, n) ==
    LET dp == defaultParams
        salt == Salt(n)
        hash == IDKey(password, salt, dp.Iterations, dp.Memory, dp.Parallelism,
                      dp.KeyLength)
    IN << TextField(""), TextField("argon2id"), TextField("v=19"),
          ParamsField(dp.Memory, dp.Iterations, dp.Parallelism),
          B64Field(salt), B64Field(hash) >>

\* fmt.Sscanf(encodedHash, "$argon2id$v=19$m=%d,t=%d,p=%d$", ...) reports no
\* error: the string starts with the literal text, the numbers are unsigned,
\* the third fits uint8, and a '$' follows them
SscanfOK(str) ==
    /\ Len(str) >= 5
    /\ str[1] = TextField("")
    /\ str[2] = TextField("argon2id")
    /\ str[3] = TextField("v=19")
    /\ str[4].kind = "params"
    /\ str[4].m \in Nat
    /\ str[4].t \in Nat
    /\ str[4].p \in 0..MaxUint8

\* splitHashString: the text between the '$' characters; what follows the
\* last '$' is kept only if it is not empty
splitHashString(str) ==
    IF str[Len(str)] = TextField("") THEN SubSeq(str, 1, Len(str) - 1) ELSE str

\* base64.RawStdEncoding.DecodeString of one field
DecodeString(field) ==
    IF field.kind = "b64" THEN [bytes |-> field.bytes, err |-> Nil]
    ELSE IF field.kind = "" THEN [bytes |-> NoBytes, err |-> Nil]
    ELSE [bytes |-> NoBytes, err |-> "illegal base64 data"]

ErrHashFormat == "invalid hash format"
ErrSaltEncoding == "invalid salt encoding"
ErrHashEncoding == "invalid hash encoding"

\* decodeHash(encodedHash)
decodeHash(str) ==
    LET parts == splitHashString(str)
        none == [params |-> ParamsField(0, 0, 0), salt |-> NoBytes, hash |-> NoBytes]
    IN IF ~SscanfOK(str) THEN [none EXCEPT !.params = TextField(ErrHashFormat)]
       ELSE IF Len(parts) # 6 THEN [none EXCEPT !.params = TextField(ErrHashFormat)]
       ELSE IF DecodeString(parts[5]).err # Nil
       THEN [none EXCEPT !.params = TextField(ErrSaltEncoding)]
       ELSE IF DecodeString(parts[6]).err # Nil
       THEN [none EXCEPT !.params = TextField(ErrHashEncoding)]
       ELSE [params |-> str[4], salt |-> DecodeString(parts[5]).bytes,
             hash |-> DecodeString(parts[6]).bytes]

\* the error of decodeHash, Nil if none
decodeHashErr(str) ==
    IF decodeHash(str).params.kind = "params" THEN Nil ELSE decodeHash(str).params.kind

\* VerifyPassword(password, encodedHash)
VerifyPasswordResult(password, str) ==
    LET d == decodeHash(str) IN
    IF decodeHashErr(str) # Nil THEN [ok |-> FALSE, err |-> decodeHashErr(str)]
    ELSE IF d.params.t < 1 \/ d.params.p < 1 THEN [ok |-> FALSE, err |-> Panic]
    ELSE LET newHash == IDKey(password, d.salt, d.params.t, d.params.m, d.params.p,
                              d.hash.len)
         IN [ok |-> d.hash = newHash, err |-> Nil]

\* strings made of a record that are no encoded hash: other text, other
\* field counts, undecodable fields, parameters out of range
Damaged(rec) ==
    { <<TextField("garbage")>>,
      <<TextField("")>>,
      [rec EXCEPT ![1] = TextField("garbage")],
      [rec EXCEPT ![2] = TextField("argon2i")],
      [rec EXCEPT ![3] = TextField("v=16")],
      [rec EXCEPT ![4] = TextField("m=x,t=y,p=z")],
      [rec EXCEPT ![4].p = MaxUint8 + 1],
      [rec EXCEPT ![4].t = 0],
      [rec EXCEPT ![4].p = 0],
      [rec EXCEPT ![5] = TextField("!!!")],
      [rec EXCEPT ![6] = TextField("!!!")],
      SubSeq(rec, 1, 5),
      SubSeq(rec, 1, 4),
      Append(rec, TextField("extra")),
      Append(rec, TextField("")) }

----------------------------------------------------------------------------
(* The user repository *)

\* a user of the repository has no such field
NoRecord == <<>>

\* models.UserStore: the users the in-memory repository starts with; the
\* default passwords are "admin123" and "user123"
DefaultUsers ==
    [username \in {"admin", "user"} |->
        IF username = "admin"
        THEN [ID |-> 1, Username |-> "admin", Role |-> "admin",
              Password |-> HashPasswordResult("admin123", MaxHashes + 1)]
        ELSE [ID |-> 2, Username |-> "user", Role |-> "user",
              Password |-> HashPasswordResult("user123", MaxHashes + 2)]]

\* the *User handed to GenerateTokens, of which it reads ID, Username, Role
UserOf(u) == [ID |-> u.ID, Username |-> u.Username, Role |-> u.Role]

\* GetUserByUsername(username): the user and whether it exists
GetUserByUsername(username) ==
    IF username \in DOMAIN userStore.Users
    THEN [user |-> userStore.Users[username], exists |-> TRUE]
    ELSE [user |-> [ID |-> 0, Username |-> "", Role |-> "", Password |-> NoRecord],
          exists |-> FALSE]

\* the body of a login request
LoginRequests ==
    [Username : {"", "admin", "user", "root", "nobody"}, Password : Passwords]

\* TokenResponse.ExpiresIn as the Login and RefreshToken handlers fill it
ExpiresIn == 900

\* the response of Login that carries no tokens
Deny(status, message) ==
    [status |-> status, message |-> message, generated |-> FALSE,
     access |-> NoToken, refresh |-> NoToken, expires_in |-> 0]

\* Login denying only when VerifyPassword returned an error together with
\* false
LoginResultErrAndNotValid(req, r) ==
    LET g == GetUserByUsername(req.Username)
        v == VerifyPasswordResult(req.Password, g.user.Password)
        t == GenerateTokensResult(UserOf(g.user), r)
    IN IF req.Username = "" \/ req.Password = ""
       THEN Deny(StatusBadRequest, "username and password are required")
       ELSE IF ~g.exists THEN Deny(StatusUnauthorized, "invalid credentials")
       ELSE IF v.err = Panic THEN Deny(StatusInternalServerError, "Internal Server Error")
       ELSE IF v.err # Nil /\ ~v.ok THEN Deny(StatusUnauthorized, "invalid credentials")
       ELSE [status |-> StatusOK, message |-> "", generated |-> TRUE,
             access |-> t.access, refresh |-> t.refresh, expires_in |-> ExpiresIn]

\* AuthHandler.Login on a request that binds. r: the clock reads of
\* GenerateTokens. generated: whether GenerateTokens was called. A panic of
\* VerifyPassword is answered 500 by the Recover middleware.
LoginResult(req, r) ==
    LET g == GetUserByUsername(req.Username)
        v == VerifyPasswordResult(req.Password, g.user.Password)
        t == GenerateTokensResult(UserOf(g.user), r)
    IN IF req.Username = "" \/ req.Password = ""
       THEN Deny(StatusBadRequest, "username and password are required")
       ELSE IF ~g.exists THEN Deny(StatusUnauthorized, "invalid credentials")
       ELSE IF v.err = Panic THEN Deny(StatusInternalServerError, "Internal Server Error")
       ELSE IF v.err # Nil \/ ~v.ok THEN Deny(StatusUnauthorized, "invalid credentials")
       ELSE [status |-> StatusOK, message |-> "", generated |-> TRUE,
             access |-> t.access, refresh |-> t.refresh, expires_in |-> ExpiresIn]

\* the usernames under which the repository holds a user with this ID
UsernamesOf(id) == {u \in DOMAIN userStore.Users : userStore.Users[u].ID = id}

\* the values the search loop of Update and Delete can leave in username: the
\* key of a stored user with this ID, whichever the iteration over the map
\* meets first, or "" when there is none
Found(id) == IF UsernamesOf(id) = {} THEN {""} ELSE UsernamesOf(id)

\* InMemoryUserRepository.Create(user): the map after the call and its error
CreateResult(user) ==
    LET ids == {userStore.Users[u].ID : u \in DOMAIN userStore.Users}
        maxID == IF \E i \in ids : i > 0
                 THEN CHOOSE i \in ids : \A j \in ids : j <= i
                 ELSE 0
        stored == IF user.ID <= 0 THEN [user EXCEPT !.ID = maxID + 1] ELSE user
    IN IF user.Username \in DOMAIN userStore.Users
       THEN [Users |-> userStore.Users, err |-> "username already exists"]
       ELSE [Users |-> [u \in DOMAIN userStore.Users \cup {user.Username} |->
                           IF u = user.Username THEN stored ELSE userStore.Users[u]],
             err |-> Nil]

\* Update without the test that the new username is free
UpdateResultWithoutConflictTest(user, username) ==
    LET renamed == username # user.Username
        kept == IF renamed THEN DOMAIN userStore.Users \ {username}
                           ELSE DOMAIN userStore.Users
    IN IF username = "" THEN [Users |-> userStore.Users, err |-> "user not found"]
       ELSE [Users |-> [u \in kept \cup {user.Username} |->
                           IF u = user.Username THEN user ELSE userStore.Users[u]],
             err |-> Nil]

\* InMemoryUserRepository.Update(user), its search having left username
UpdateResult(user, username) ==
    LET renamed == username # user.Username
        kept == IF renamed THEN DOMAIN userStore.Users \ {username}
                           ELSE DOMAIN userStore.Users
    IN IF username = "" THEN [Users |-> userStore.Users, err |-> "user not found"]
       ELSE IF renamed /\ user.Username \in DOMAIN userStore.Users
       THEN [Users |-> userStore.Users, err |-> "new username already exists"]
       ELSE [Users |-> [u \in kept \cup {user.Username} |->
                           IF u = user.Username THEN user ELSE userStore.Users[u]],
             err |-> Nil]

\* InMemoryUserRepository.Delete(id), its search having left username
DeleteResult(id, username) ==
    IF username = "" THEN [Users |-> userStore.Users, err |-> "user not found"]
    ELSE [Users |-> [u \in DOMAIN userStore.Users \ {username} |-> userStore.Users[u]],
          err |-> Nil]

\* the users handed to Create and Update of a repository on its own
RepoUsers ==
    [ID : 0..3, Username : {"", "admin", "user", "root"}, Role : {"user"},
     Password : {DefaultUsers["user"].Password}]

\* what a stored user may be updated to: another role, another name, a new
\* password, or a password record that was not written by HashPassword
Updates(u) ==
    { [u EXCEPT !.Role = IF @ = "admin" THEN "user" ELSE "admin"],
      [u EXCEPT !.Username = "root"],
      [u EXCEPT !.Username = "admin"],
      [u EXCEPT !.Password = HashPasswordResult("user123", MaxHashes + 3)],
      [u EXCEPT !.Password = <<TextField("garbage")>>],
      [u EXCEPT !.Password = Append(@, TextField(""))],
      [u EXCEPT !.Password[4].t = 0],
      [u EXCEPT !.ID = 3] }

\* AuthHandler.RefreshToken. r: the clock reads of Manager.RefreshToken. A
\* panic is answered 500 by the Recover middleware.
RefreshHandlerResult(req, r) ==
    LET res == RefreshResult(req.tok, r)
        none == [status |-> StatusUnauthorized, message |-> "", access |-> NoToken,
                 expires_in |-> 0]
    IN IF req.header = ""
       THEN [none EXCEPT !.message = "missing authorization header"]
       ELSE IF req.header # "Bearer"
       THEN [none EXCEPT !.message = "invalid authorization header format"]
       ELSE IF res.err = Panic
       THEN [none EXCEPT !.status = StatusInternalServerError,
                         !.message = "Internal Server Error"]
       ELSE IF res.err # Nil
       THEN [none EXCEPT !.message = "invalid refresh token"]
       ELSE [status |-> StatusOK, message |-> "", access |-> res.token,
             expires_in |-> ExpiresIn]

\* AuthHandler.Logout, a public route. writes: whether a record for jti is
\* written. A panic of BlacklistToken is answered 500 by the Recover
\* middleware.
LogoutResult(req, r) ==
    LET res == BlacklistResult(req.tok, r)
        none == [status |-> StatusUnauthorized, message |-> "", writes |-> FALSE,
                 jti |-> NoJti]
    IN IF req.header = ""
       THEN [none EXCEPT !.message = "missing authorization header"]
       ELSE IF req.header # "Bearer"
       THEN [none EXCEPT !.message = "invalid authorization header format"]
       ELSE IF res.err = Panic
       THEN [none EXCEPT !.status = StatusInternalServerError,
                         !.message = "Internal Server Error"]
       ELSE IF res.err # Nil
       THEN [none EXCEPT !.status = StatusInternalServerError,
                         !.message = "failed to logout"]
       ELSE [status |-> StatusOK, message |-> "successfully logged out",
             writes |-> res.writes, jti |-> req.tok.claims.TokenID]

----------------------------------------------------------------------------
(* Actions *)

\* the state after construction, but for the configuration
Start ==
    /\ now = 0
    /\ redisUp = TRUE
    /\ store = [k \in {} |-> NoExpiry]
    /\ issues = <<>>
    /\ mints = <<>>
    /\ revoked = {}
    /\ last = [op |-> "init", tok |-> NoToken, user |-> NoUser]
    /\ gor = [g \in Goroutines |-> [pc |-> "idle", timestamp |-> 0, ids |-> <<>>]]
    /\ pwd = [hashes |-> <<>>, drawn |-> 0,
              result |-> [password |-> "", ok |-> FALSE, err |-> Nil]]
    /\ userStore = [Users |-> DefaultUsers, writes |-> 0]

Init == config \in Configs /\ Start

\* The clock advances. Before the first token is issued nothing depends on
\* the clock but its position within the second.
Tick ==
    /\ now < MaxTime
    /\ (issues # <<>> \/ now + 1 < Second)
    /\ now' = now + 1
    /\ store' = Expire(store, now')
    /\ UNCHANGED <<userStore, pwd, gor, config, redisUp, issues, mints, revoked, last>>

\* the Redis server becomes unreachable, or reachable again
RedisDown ==
    /\ redisUp
    /\ redisUp' = FALSE
    /\ UNCHANGED <<userStore, pwd, gor, now, config, store, issues, mints, revoked, last>>

RedisRecover ==
    /\ ~redisUp
    /\ redisUp' = TRUE
    /\ UNCHANGED <<userStore, pwd, gor, now, config, store, issues, mints, revoked, last>>

\* GenerateTokens keeping a record of the access token's jti in the store
GenerateTokensRecordingJti(user) ==
    /\ redisUp
    /\ \E r \in Reads(6) :
        /\ issues' = Append(issues, GenerateTokensResult(user, r))
        /\ last' = [op |-> "GenerateTokens", tok |-> NoToken, user |-> user]
        /\ now' = r[6]
        /\ store' = Expire(RedisSet(store, generateTokenId(r[1]),
                                    config.AccessTokenExpiration, r[6]), now')
    /\ UNCHANGED <<userStore, pwd, gor, config, redisUp, mints, revoked>>

GenerateTokens(user) ==
    /\ \E r \in Reads(6) :
        /\ issues' = Append(issues, GenerateTokensResult(user, r))
        /\ last' = [op |-> "GenerateTokens", tok |-> NoToken, user |-> user]
        /\ now' = r[6]
        /\ store' = Expire(store, now')
    /\ UNCHANGED <<userStore, pwd, gor, config, redisUp, mints, revoked>>

\* VerifyToken reads the clock and the store and changes neither
VerifyToken(tok) ==
    \E r \in Reads(2) :
        /\ now' = r[2]
        /\ store' = Expire(store, now')
        /\ UNCHANGED <<userStore, pwd, gor, config, redisUp, issues, mints, revoked, last>>

RefreshToken(tok) ==
    /\ Len(mints) < MaxRefreshes
    /\ \E r \in Reads(5) :
        LET res == RefreshResult(tok, r) IN
        /\ IF res.err = Nil
           THEN /\ mints' = Append(mints, [from |-> tok, access |-> res.token])
                /\ last' = [op |-> "RefreshToken", tok |-> tok, user |-> NoUser]
           ELSE UNCHANGED <<mints, last>>
        /\ now' = r[5]
        /\ store' = Expire(store, now')
    /\ UNCHANGED <<userStore, pwd, gor, config, redisUp, issues, revoked>>

BlacklistToken(tok) ==
    \E r \in Reads(3) :
        LET res == BlacklistResult(tok, r) IN
        /\ IF res.err = Nil
           THEN /\ revoked' = revoked \cup {tok}
                /\ last' = [op |-> "BlacklistToken", tok |-> tok, user |-> NoUser]
           ELSE UNCHANGED <<revoked, last>>
        /\ now' = r[3]
        /\ store' = Expire(IF res.writes
                           THEN RedisSet(store, tok.claims.TokenID, res.ttl, r[3])
                           ELSE store, now')
        /\ UNCHANGED <<userStore, pwd, gor, config, redisUp, issues, mints>>

\* One session: a login, the calls made with its tokens, its renewals
NextSession ==
    \/ Tick
    \/ RedisDown
    \/ RedisRecover
    \/ \E user \in Users : Len(issues) < MaxLogins /\ GenerateTokens(user)
    \/ \E tok \in IssuedTokens : VerifyToken(tok)
    \/ \E tok \in IssuedTokens \cup {Malformed} : RefreshToken(tok)
    \/ \E tok \in IssuedTokens \cup {Malformed} : BlacklistToken(tok)

Spec == Init /\ [][NextSession]_vars

\* the user of the first login
FirstUser == IF issues = <<>> THEN 0 ELSE issues[1].access.claims.UserID

\* Several logins (devices) of one user and their logouts
NextDevices ==
    \/ Tick
    \/ \E user \in Users :
          /\ Len(issues) < MaxIssues
          /\ (issues = <<>> \/ user.ID = FirstUser)
          /\ GenerateTokens(user)
    \/ \E tok \in IssuedTokens : BlacklistToken(tok)

InitDevices == Init /\ config.AccessTokenExpiration = Second

SpecDevices == InitDevices /\ [][NextDevices]_vars

\* One session of a server configured by NewConfig
InitDefault == config \in {NewConfig(env) : env \in Envs} /\ Start

SpecDefault == InitDefault /\ [][NextSession]_vars

\* Logins and logouts of one user while the store comes and goes
NextIssue ==
    \/ Tick
    \/ RedisDown
    \/ RedisRecover
    \/ \E user \in Users :
          /\ Len(issues) < MaxIssues
          /\ (issues = <<>> \/ user.ID = FirstUser)
          /\ GenerateTokens(user)
    \/ \E tok \in IssuedTokens : BlacklistToken(tok)

SpecIssue == InitDevices /\ [][NextIssue]_vars

----------------------------------------------------------------------------
(* Concurrent issuance: request handlers run GenerateTokens and RefreshToken *)
(* in goroutines of their own; each call of generateTokenId reads the clock  *)
(* and then derives the id from the timestamp it read.                       *)

\* goroutine g enters generateTokenId: timestamp := time.Now().UnixNano()
ReadTimestamp(g) ==
    /\ gor[g].pc = "idle"
    /\ Len(gor[g].ids) < MaxIds
    /\ gor' = [gor EXCEPT ![g].pc = "hash", ![g].timestamp = now]
    /\ UNCHANGED <<now, config, redisUp, store, issues, mints, revoked, last, pwd,
                   userStore>>

\* goroutine g hashes timestamp and randomBytes and returns the id
ReturnTokenId(g) ==
    /\ gor[g].pc = "hash"
    /\ gor' = [gor EXCEPT ![g].pc = "idle",
                          ![g].ids = Append(@, generateTokenId(gor[g].timestamp))]
    /\ UNCHANGED <<now, config, redisUp, store, issues, mints, revoked, last, pwd,
                   userStore>>

\* the clock advances while goroutines run
ClockTick ==
    /\ now < MaxTime
    /\ now' = now + 1
    /\ UNCHANGED <<config, redisUp, store, issues, mints, revoked, last, gor, pwd,
                   userStore>>

NextConc ==
    \/ ClockTick
    \/ \E g \in Goroutines : ReadTimestamp(g)
    \/ \E g \in Goroutines : ReturnTokenId(g)

SpecConc == InitDevices /\ [][NextConc]_vars

----------------------------------------------------------------------------
(* Password hashing and verification as operations *)

\* the records HashPassword has returned
Records == {pwd.hashes[i].record : i \in 1..Len(pwd.hashes)}

HashPassword(password) ==
    /\ Len(pwd.hashes) < MaxHashes
    /\ pwd' = [pwd EXCEPT
                 !.drawn = @ + 1,
                 !.hashes = Append(@, [password |-> password,
                                       record |-> HashPasswordResult(password,
                                                                     pwd.drawn + 1)])]
    /\ UNCHANGED <<now, config, redisUp, store, issues, mints, revoked, last, gor,
                   userStore>>

VerifyPassword(password, str) ==
    /\ pwd' = [pwd EXCEPT
                 !.result = [password |-> password,
                             ok |-> VerifyPasswordResult(password, str).ok,
                             err |-> VerifyPasswordResult(password, str).err]]
    /\ UNCHANGED <<now, config, redisUp, store, issues, mints, revoked, last, gor,
                   userStore>>

NextPassword ==
    \/ \E password \in Passwords : HashPassword(password)
    \/ \E password \in Passwords :
          \E str \in Records \cup UNION {Damaged(rec) : rec \in Records} :
              VerifyPassword(password, str)

SpecPassword == InitDevices /\ [][NextPassword]_vars

----------------------------------------------------------------------------
(* Logins against a user repository that changes *)

\* Login reads the clock only inside GenerateTokens
Login(req) ==
    /\ IF LoginResult(req, Still(6)).generated
       THEN /\ Len(issues) < MaxLogins
            /\ \E r \in Reads(6) :
                  /\ issues' = Append(issues, [access |-> LoginResult(req, r).access,
                                               refresh |-> LoginResult(req, r).refresh])
                  /\ now' = r[6]
            /\ last' = [op |-> "Login", tok |-> NoToken,
                        user |-> UserOf(GetUserByUsername(req.Username).user)]
       ELSE /\ last' = [op |-> "LoginDenied", tok |-> NoToken, user |-> NoUser]
            /\ UNCHANGED <<issues, now>>
    /\ store' = Expire(store, now')
    /\ UNCHANGED <<config, redisUp, mints, revoked, gor, pwd, userStore>>

Create(user) ==
    /\ userStore' =
          [Users |-> CreateResult(user).Users,
           writes |-> IF CreateResult(user).err = Nil THEN userStore.writes + 1
                                                     ELSE userStore.writes]
    /\ UNCHANGED <<now, config, redisUp, store, issues, mints, revoked, last, gor, pwd>>

Update(user) ==
    \E username \in Found(user.ID) :
        /\ userStore' =
              [Users |-> UpdateResult(user, username).Users,
               writes |-> IF UpdateResult(user, username).err = Nil
                          THEN userStore.writes + 1 ELSE userStore.writes]
        /\ UNCHANGED <<now, config, redisUp, store, issues, mints, revoked, last, gor, pwd>>

Delete(id) ==
    \E username \in Found(id) :
        /\ userStore' =
              [Users |-> DeleteResult(id, username).Users,
               writes |-> IF DeleteResult(id, username).err = Nil
                          THEN userStore.writes + 1 ELSE userStore.writes]
        /\ UNCHANGED <<now, config, redisUp, store, issues, mints, revoked, last, gor, pwd>>

NextLogin ==
    \/ Tick
    \/ \E req \in LoginRequests : Login(req)
    \/ \E username \in DOMAIN userStore.Users :
          \E user \in Updates(userStore.Users[username]) :
              userStore.writes < MaxWrites /\ Update(user)
    \/ \E id \in 1..3 : userStore.writes < MaxWrites /\ Delete(id)
    \/ \E tok \in IssuedTokens : RefreshToken(tok)

SpecLogin == InitDevices /\ [][NextLogin]_vars

----------------------------------------------------------------------------
(* The user repository on its own *)

NextRepo ==
    \/ \E user \in RepoUsers : userStore.writes < MaxRepoWrites /\ Create(user)
    \/ \E user \in RepoUsers : userStore.writes < MaxRepoWrites /\ Update(user)
    \/ \E id \in 0..4 : userStore.writes < MaxRepoWrites /\ Delete(id)

SpecRepo == Init /\ [][NextRepo]_vars

----------------------------------------------------------------------------
(* Properties.  A property about the result of a call is stated over every   *)
(* call that could be made in the current state: every token concerned and   *)
(* every sequence of clock values the call may read.                         *)

\* the call that last issued, renewed or revoked is BlacklistToken(tok) = nil
JustRevoked(tok) == last.op = "BlacklistToken" /\ last.tok = tok

CallTokens(i) == {issues[i].access, issues[i].refresh}

\* the claims are those GenerateTokens builds for user
ClaimsOf(claims, user) ==
    /\ claims.UserID = user.ID
    /\ claims.Username = user.Username
    /\ claims.Role = user.Role

\* C2: multi-device isolation: a token of a GenerateTokens call none of whose
\* tokens has been blacklisted keeps verifying until it expires, and its jti
\* is not reported as blacklisted, whatever tokens of the user's other
\* GenerateTokens calls have been blacklisted.
C2_DeviceIsolation ==
    \A k \in 1..Len(issues) : \A tB \in CallTokens(k) :
        (revoked \cap CallTokens(k) = {} /\ now < tB.claims.ExpiresAt) =>
            /\ VerifyResult(tB, now, now).err = Nil
            /\ ~IsTokenBlacklisted(tB.claims.TokenID, now).result

\* C3: a token for which BlacklistToken returned nil is never accepted by
\* VerifyToken again: at no instant is the token unexpired and its blacklist
\* record gone.
C3_RevokedNeverAccepted ==
    \A tok \in revoked :
        /\ VerifyResult(tok, now, now).err # Nil
        /\ now < tok.claims.ExpiresAt => RedisExists(store, tok.claims.TokenID, now)

\* C4: every issued token has a jti of its own: the two tokens of one
\* GenerateTokens call differ in jti, and the tokens of two GenerateTokens
\* calls for the same user have four pairwise distinct jti values.
C4_JtiUnique ==
    \A i, k \in 1..Len(issues) :
        /\ issues[i].access.claims.TokenID # issues[i].refresh.claims.TokenID
        /\ i # k =>
              \A tA \in CallTokens(i) : \A tB \in CallTokens(k) :
                  tA.claims.TokenID # tB.claims.TokenID

\* C5: under any interleaving of goroutines calling generateTokenId, no two
\* ids returned are equal.
C5_ConcurrentJtiUnique ==
    \A g, h \in Goroutines :
        \A i \in 1..Len(gor[g].ids) : \A k \in 1..Len(gor[h].ids) :
            (g # h \/ i # k) => gor[g].ids[i] # gor[h].ids[k]

\* C6: the access token GenerateTokens(u) has just returned, verified while it
\* is unexpired and the store is reachable, is accepted with TokenType
\* "access" and the UserID, Username and Role of u.
C6_VerifyAfterIssue ==
    (last.op = "GenerateTokens" /\ redisUp) =>
        LET tok == issues[Len(issues)].access
            res == VerifyResult(tok, now, now)
        IN now < tok.claims.ExpiresAt =>
              /\ res.err = Nil
              /\ res.claims.TokenType = "access"
              /\ ClaimsOf(res.claims, last.user)

\* C7: RefreshToken returns an error and no token for a token VerifyToken
\* accepts as an access token; it succeeds only for a token of type refresh,
\* and the access token it mints has a jti other than the refresh token's.
C7_RefreshOnlyRefresh ==
    \A tok \in Presentable : \A r \in Reads(5) :
        LET res == RefreshResult(tok, r) IN
        /\ (VerifyResult(tok, r[1], r[2]).err = Nil /\ tok.claims.TokenType = "access")
              => res.err # Nil /\ res.token = NoToken
        /\ res.err = Nil =>
              /\ tok.claims.TokenType = "refresh"
              /\ res.token.claims.TokenType = "access"
              /\ res.token.claims.TokenID # tok.claims.TokenID

\* C8: once the access token of an issued pair has expired and while the
\* refresh token has not (neither was blacklisted, the store is reachable),
\* VerifyToken(access) returns ErrTokenExpired, RefreshToken(refresh) succeeds
\* and VerifyToken accepts the access token it returns, unless that has
\* expired in its turn.
C8_RefreshAfterAccessExpiry ==
    \A i \in 1..Len(issues) : \A r \in Reads(5) :
        LET access == issues[i].access
            refresh == issues[i].refresh
            res == RefreshResult(refresh, r)
        IN (/\ revoked \cap CallTokens(i) = {}
            /\ redisUp
            /\ access.claims.ExpiresAt <= now
            /\ now < refresh.claims.ExpiresAt) =>
               /\ VerifyResult(access, r[1], r[2]).err = ErrTokenExpired
               /\ res.err = Nil
               /\ r[5] < res.token.claims.ExpiresAt =>
                      VerifyResult(res.token, r[5], r[5]).err = Nil

\* the token is a JWT signed with the manager's secret
CorrectlySigned(tok) == tok.form = "jwt" /\ MethodVerify(tok, JWTSecret)

\* C9: VerifyToken returns ErrTokenExpired for a correctly signed token whose
\* expiry has passed, blacklisted or not, store reachable or not, and
\* ErrInvalidToken for every token that is malformed, undecodable, not HMAC
\* signed or wrongly signed, expired or not.
C9_ExpiredVersusInvalid ==
    \A tok \in Presentable : \A r \in Reads(2) :
        LET res == VerifyResult(tok, r[1], r[2]) IN
        /\ (CorrectlySigned(tok) /\ tok.claims.ExpiresAt <= r[1])
              => res.err = ErrTokenExpired /\ res.claims = NoClaims
        /\ ~CorrectlySigned(tok) => res.err = ErrInvalidToken /\ res.claims = NoClaims
        /\ res.err = ErrTokenExpired => tok.claims.ExpiresAt <= r[1]

\* C9 witness: a token that was blacklisted while valid has expired, and
\* VerifyToken reports it as expired; a tampered copy of it is invalid
C9_Witness ==
    \E tok \in revoked :
        /\ tok.claims.ExpiresAt <= now
        /\ VerifyResult(tok, now, now).err = ErrTokenExpired
        /\ \E bad \in Tampered(tok) : VerifyResult(bad, now, now).err = ErrInvalidToken

\* C10: while the store is unreachable IsTokenBlacklisted returns an error
\* and never (false, nil), and VerifyToken on a correctly signed, unexpired
\* token returns that error and no claims.
C10_StoreFailureSurfaces ==
    ~redisUp =>
        \A tok \in Presentable : \A r \in Reads(2) :
            LET b == IsTokenBlacklisted(tok.claims.TokenID, r[2])
                res == VerifyResult(tok, r[1], r[2])
            IN /\ b.err # Nil
               /\ (CorrectlySigned(tok) /\ r[1] < tok.claims.ExpiresAt)
                     => res.err = b.err /\ res.claims = NoClaims

\* C10 witness: the store is unreachable, an issued token is unexpired and was
\* never blacklisted, and VerifyToken returns the store's error
C10_Witness ==
    /\ ~redisUp
    /\ \E tok \in IssuedTokens \ revoked :
          /\ now < tok.claims.ExpiresAt
          /\ VerifyResult(tok, now, now) = [claims |-> NoClaims, err |-> ErrRedis]

\* C11: BlacklistToken on an issued token whose expiry has passed returns nil
\* and writes no record.
C11_ExpiredRevocationIsNoOp ==
    \A tok \in IssuedTokens : \A r \in Reads(3) :
        tok.claims.ExpiresAt <= r[1] =>
            LET res == BlacklistResult(tok, r) IN res.err = Nil /\ ~res.writes

\* C12: BlacklistToken on a string whose claims cannot be decoded (not three
\* segments, or an undecodable segment) returns an error, does not panic and
\* writes nothing.
C12_UndecodableRevocationIsError ==
    \A tok \in {Malformed, Undecodable} : \A r \in Reads(3) :
        LET res == BlacklistResult(tok, r) IN
        res.err # Nil /\ res.err # Panic /\ ~res.writes

\* C13: every blacklist record has an expiry, and once every issued token has
\* expired and the longest time a call may take has passed, no jti is
\* reported as blacklisted.
C13_RecordsExpire ==
    /\ \A jti \in DOMAIN store : store[jti] # NoExpiry
    /\ (\A tok \in IssuedTokens : tok.claims.ExpiresAt + MaxDrift <= now) =>
           \A tok \in IssuedTokens : ~IsTokenBlacklisted(tok.claims.TokenID, now).result

\* C14: Authenticate calls the next handler only when VerifyToken succeeded
\* and the token is of type access; a refresh token is never admitted.
C14_GateAdmitsOnlyAccess ==
    \A req \in Requests : \A r \in Reads(2) :
        LET a == Authenticate(req, r[1], r[2]) IN
        a.next =>
            /\ req.header = "Bearer"
            /\ VerifyResult(req.tok, r[1], r[2]).err = Nil
            /\ req.tok.claims.TokenType = "access"
            /\ a.user = req.tok.claims

\* C14 witness: a refresh token that VerifyToken accepts is turned away with
\* 401 'invalid token type'
C14_Witness ==
    \E tok \in IssuedTokens :
        /\ tok.claims.TokenType = "refresh"
        /\ VerifyResult(tok, now, now).err = Nil
        /\ Authenticate([header |-> "Bearer", tok |-> tok], now, now)
             = Abort(StatusUnauthorized, "invalid token type")

\* C15: on the admin route a request is answered 403 only if its token
\* verified, is an access token and carries another role than admin; a
\* request whose authentication fails is answered 401 by Authenticate, and
\* RequireRole never finds the context without claims.
C15_RoleCheckAfterAuthentication ==
    \A req \in Requests : \A r \in Reads(2) :
        LET a == Authenticate(req, r[1], r[2])
            resp == AdminRoute(req, r[1], r[2])
        IN /\ resp.status = StatusForbidden =>
                 /\ VerifyResult(req.tok, r[1], r[2]).err = Nil
                 /\ req.tok.claims.TokenType = "access"
                 /\ req.tok.claims.Role # "admin"
                 /\ resp.message = "insufficient permissions"
           /\ ~a.next => resp = a /\ resp.status = StatusUnauthorized
           /\ resp.message # "user not authenticated"
           /\ resp.next => a.next /\ resp.user.Role = "admin"

\* C15 witness: an access token of a user without the admin role verifies
\* and the admin route answers 403
C15_Witness ==
    \E tok \in IssuedTokens :
        /\ tok.claims.TokenType = "access"
        /\ tok.claims.Role = "user"
        /\ VerifyResult(tok, now, now).err = Nil
        /\ AdminRoute([header |-> "Bearer", tok |-> tok], now, now).status = StatusForbidden

\* C16: a failure of the store during VerifyToken gives an outcome of the gate
\* that is neither admission nor a denial: its status differs from the status
\* with which invalid, expired and revoked tokens are denied.
C16_StoreFailureIsNotADenial ==
    \A req \in Requests : \A r \in Reads(2) :
        LET a == Authenticate(req, r[1], r[2]) IN
        (req.header = "Bearer" /\ VerifyResult(req.tok, r[1], r[2]).err = ErrRedis) =>
            ~a.next /\ a.status # StatusUnauthorized

\* C17: VerifyToken answers ErrInvalidToken to every token whose header
\* algorithm is not an HMAC algorithm, whatever its claims and signature, and
\* returns claims only for a token whose signature is the HMAC of its claims
\* under the configured secret.
C17_OnlyHMACUnderSecret ==
    \A tok \in IssuedTokens : \A f \in Forged(tok) : \A r \in Reads(2) :
        LET res == VerifyResult(f, r[1], r[2]) IN
        /\ f.alg \notin HMACFamily => res.err = ErrInvalidToken /\ res.claims = NoClaims
        /\ res.err = Nil =>
              /\ f.alg \in HMACFamily
              /\ f.sig = HMAC(JWTSecret, f.alg, f.claims)
              /\ res.claims = f.claims

\* C17 witness: an issued token verifies; its copies with algorithm none and
\* no signature, and with the role raised under an attacker's key, are invalid
C17_Witness ==
    \E tok \in IssuedTokens :
        /\ VerifyResult(tok, now, now).err = Nil
        /\ VerifyResult([tok EXCEPT !.alg = "none", !.sig = NoSig], now, now).err
             = ErrInvalidToken
        /\ \E f \in Forged(tok) :
              /\ f.claims.Role # tok.claims.Role
              /\ f.sig = HMAC("attacker-key", f.alg, f.claims)
              /\ VerifyResult(f, now, now).err = ErrInvalidToken

WellFormed(str) ==
    /\ Len(str) = 6
    /\ SscanfOK(str)
    /\ str[4].t >= 1
    /\ str[4].p >= 1
    /\ str[5].kind = "b64"
    /\ str[6].kind = "b64"

\* C19: the records HashPassword returns differ from one another, also for
\* the same password, and VerifyPassword accepts the password of each.
C19_FreshSaltAndRoundTrip ==
    \A i, k \in 1..Len(pwd.hashes) :
        /\ i # k => pwd.hashes[i].record # pwd.hashes[k].record
        /\ VerifyPasswordResult(pwd.hashes[i].password, pwd.hashes[i].record)
             = [ok |-> TRUE, err |-> Nil]

\* C19 witness: one password was hashed twice and the last VerifyPassword
\* call accepted it
C19_Witness ==
    /\ Len(pwd.hashes) = 2
    /\ pwd.hashes[1].password = pwd.hashes[2].password
    /\ pwd.hashes[1].record # pwd.hashes[2].record
    /\ pwd.result = [password |-> pwd.hashes[1].password, ok |-> TRUE, err |-> Nil]

\* C20: VerifyPassword with another password than the hashed one returns
\* (false, nil); with a string that is no well-formed encoded hash it returns
\* false and a decode error, and does not panic.
C20_MismatchVersusMalformed ==
    \A i \in 1..Len(pwd.hashes) : \A q \in Passwords :
        /\ q # pwd.hashes[i].password =>
              VerifyPasswordResult(q, pwd.hashes[i].record) = [ok |-> FALSE, err |-> Nil]
        /\ \A str \in Damaged(pwd.hashes[i].record) :
              ~WellFormed(str) =>
                  LET res == VerifyPasswordResult(q, str) IN
                  ~res.ok /\ res.err # Nil /\ res.err # Panic

\* C21: VerifyToken sends no command to the store for a token that is
\* malformed, undecodable, wrongly signed, of another algorithm or expired: it
\* returns ErrTokenExpired or ErrInvalidToken as the token alone decides,
\* whether the store is reachable or not; it sends one command otherwise.
C21_StoreConsultedLast ==
    \A tok \in Presentable : \A r \in Reads(2) :
        LET c == VerifyCall(tok, r[1], r[2])
            rejected == ~CorrectlySigned(tok) \/ tok.claims.ExpiresAt <= r[1]
        IN /\ rejected =>
                 /\ c.requests = 0
                 /\ c.claims = NoClaims
                 /\ c.err = IF CorrectlySigned(tok) THEN ErrTokenExpired
                                                   ELSE ErrInvalidToken
           /\ ~rejected => c.requests = 1

\* C21 witness: the store is unreachable; an expired issued token and a
\* wrongly signed copy of a token are rejected without a command to the
\* store, while an unexpired token gets the store's error
C21_Witness ==
    /\ ~redisUp
    /\ \E tok \in IssuedTokens :
          /\ tok.claims.ExpiresAt <= now
          /\ VerifyCall(tok, now, now) =
               [claims |-> NoClaims, err |-> ErrTokenExpired, requests |-> 0]
    /\ \E tok \in IssuedTokens : \E bad \in Tampered(tok) :
          VerifyCall(bad, now, now) =
              [claims |-> NoClaims, err |-> ErrInvalidToken, requests |-> 0]
    /\ \E tok \in IssuedTokens :
          VerifyCall(tok, now, now) = [claims |-> NoClaims, err |-> ErrRedis, requests |-> 1]

\* C22: the access token RefreshToken mints carries the UserID, Username and
\* Role of the refresh token presented and TokenType access, whatever the
\* user repository holds for that user by then.
C22_RefreshKeepsSnapshot ==
    \A tok \in Presentable : \A r \in Reads(5) :
        LET res == RefreshResult(tok, r) IN
        res.err = Nil =>
            /\ res.token.claims.UserID = tok.claims.UserID
            /\ res.token.claims.Username = tok.claims.Username
            /\ res.token.claims.Role = tok.claims.Role
            /\ res.token.claims.TokenType = "access"

\* C22 witness: the user of an issued refresh token has been deleted from the
\* repository, or has another role there, and RefreshToken mints an access
\* token with the role of the refresh token
C22_Witness ==
    \E i \in 1..Len(issues) :
        LET tok == issues[i].refresh
            res == RefreshResult(tok, Still(5))
        IN /\ userStore.writes > 0
           /\ \/ tok.claims.Username \notin DOMAIN userStore.Users
              \/ userStore.Users[tok.claims.Username].Role # tok.claims.Role
           /\ res.err = Nil
           /\ res.token.claims.Role = tok.claims.Role

C23_RefreshReturnsVerifyError ==
    \A tok \in Presentable : \A r \in Reads(5) :
        LET v == VerifyResult(tok, r[1], r[2])
            f == RefreshResult(tok, r)
        IN /\ v.err # Nil => f = [token |-> NoToken, err |-> v.err]
           /\ f.token # NoToken => v.err = Nil /\ f.err = Nil

\* C23 witness: a refresh token was revoked and is unexpired; VerifyToken
\* reports it as blacklisted and RefreshToken returns that error and no token
C23_Witness ==
    \E tok \in revoked :
        /\ tok.claims.TokenType = "refresh"
        /\ now < tok.claims.ExpiresAt
        /\ VerifyResult(tok, now, now).err = ErrTokenBlacklisted
        /\ RefreshResult(tok, Still(5)) = [token |-> NoToken, err |-> ErrTokenBlacklisted]

\* C24: BlacklistToken on an issued token whose remaining lifetime, computed
\* when it is revoked, is zero or less returns nil and sends no SET to the
\* store.
C24_NoWriteAtZeroLifetime ==
    \A tok \in IssuedTokens : \A r \in Reads(3) :
        tok.claims.ExpiresAt - r[2] <= 0 =>
            LET res == BlacklistResult(tok, r) IN
            res.err = Nil /\ ~res.writes

\* C25: BlacklistToken on a copy of an unexpired issued token whose signature
\* or algorithm does not verify, and whose claims decode, returns nil and
\* writes the record of the decoded jti (the store being reachable).
C25_BestEffortRevocation ==
    \A tok \in IssuedTokens : \A bad \in Tampered(tok) : \A r \in Reads(3) :
        (redisUp /\ ~CorrectlySigned(bad) /\ r[2] < bad.claims.ExpiresAt) =>
            LET res == BlacklistResult(bad, r) IN
            /\ res.err = Nil
            /\ res.writes
            /\ res.ttl = bad.claims.ExpiresAt - r[2]

\* C26: GenerateTokens does not touch the store: a step that issues tokens
\* leaves every record as the passing of time alone leaves it and does not
\* depend on the store being reachable; while the store is unreachable
\* GenerateTokens can be called and returns two signed tokens.
C26_IssueWithoutStore ==
    /\ [][Len(issues') > Len(issues) =>
             store' = Expire(store, now') /\ redisUp' = redisUp]_vars
    /\ [](~redisUp =>
             /\ Len(issues) < MaxIssues => ENABLED (\E user \in Users : GenerateTokens(user))
             /\ \A user \in Users : \A r \in Reads(6) :
                    LET t == GenerateTokensResult(user, r) IN
                    CorrectlySigned(t.access) /\ CorrectlySigned(t.refresh))

\* C26 witness: the store is unreachable and holds a record; the last call
\* was the second GenerateTokens, made after the revocation that wrote the
\* record
C26_Witness ==
    /\ ~redisUp
    /\ Len(issues) = 2
    /\ last.op = "GenerateTokens"
    /\ revoked # {}
    /\ DOMAIN store # {}

\* C27: with no environment variable set, the refresh token of every
\* GenerateTokens call expires later than its access token, seven days
\* (to the second) after it was issued.
C27_DefaultRefreshOutlivesAccess ==
    config = NewConfig(NoEnv) =>
        \A i \in 1..Len(issues) :
            LET access == issues[i].access.claims
                refresh == issues[i].refresh.claims
            IN /\ refresh.ExpiresAt > access.ExpiresAt
               /\ refresh.ExpiresAt - refresh.IssuedAt >= 7 * 24 * Hour - Second

\* C28: decodeHash accepts a record HashPassword made, and accepts a string
\* only if it has the six fields of the encoded form: it returns an error for
\* every string with another number of fields, an empty seventh field
\* included.
C28_ExactlySixFields ==
    \A i \in 1..Len(pwd.hashes) :
        LET rec == pwd.hashes[i].record IN
        /\ decodeHashErr(rec) = Nil
        /\ \A str \in Damaged(rec) : Len(str) # 6 => decodeHashErr(str) # Nil

\* C30: a revocation reaches one token only: while the store is reachable,
\* every issued or minted token that was not itself blacklisted verifies until
\* it expires, whichever other tokens were blacklisted, and RefreshToken
\* succeeds on such a refresh token.
C30_RevocationScope ==
    \A tok \in IssuedTokens \ revoked :
        (redisUp /\ revoked # {} /\ now < tok.claims.ExpiresAt) =>
            /\ VerifyResult(tok, now, now).err = Nil
            /\ tok.claims.TokenType = "refresh" => RefreshResult(tok, Still(5)).err = Nil

\* C31: RefreshToken does not consume the refresh token: after a successful
\* RefreshToken(t), while t is unexpired and not blacklisted and the store is
\* reachable, RefreshToken(t) succeeds again and the access token it mints
\* has a jti that no token issued or minted before has.
C31_RefreshIsRepeatable ==
    \A m \in 1..Len(mints) : \A r \in Reads(5) :
        LET tok == mints[m].from
            res == RefreshResult(tok, r)
        IN (redisUp /\ tok \notin revoked /\ r[2] < tok.claims.ExpiresAt) =>
              /\ res.err = Nil
              /\ \A earlier \in IssuedTokens :
                     res.token.claims.TokenID # earlier.claims.TokenID

\* the logout route writes for this request only if it carries a token with
\* the HMAC of its claims under the configured secret that is unexpired when
\* BlacklistToken parses it, and then for the jti of that token
WritesOnlyIfGenuine(req, r) ==
    LET res == LogoutResult(req, r) IN
    res.writes =>
        /\ req.header = "Bearer"
        /\ CorrectlySigned(req.tok)
        /\ r[1] < req.tok.claims.ExpiresAt
        /\ res.jti = req.tok.claims.TokenID

C33_RevokeTwice ==
    \A tok \in revoked : \A r \in Reads(3) :
        LET jti == tok.claims.TokenID
            exp == tok.claims.ExpiresAt
            res == BlacklistResult(tok, r)
            after == RedisSet(store, jti, res.ttl, r[3])
        IN (redisUp /\ RedisExists(store, jti, now) /\ r[1] < exp) =>
              /\ res.err = Nil
              /\ res.writes
              /\ DOMAIN after = DOMAIN store
              /\ after[jti] # NoExpiry
              /\ after[jti] <= exp + (r[3] - r[2])
              /\ RedisExists(after, jti, r[3])

\* C34: Create with a username that is already stored, and Update of a stored
\* user to a username under which a user with another ID is stored, return an
\* error and leave the map of stored users unchanged.
C34_ConflictsChangeNothing ==
    \A user \in RepoUsers :
        LET stored == userStore.Users
            taken == user.Username \in DOMAIN stored
        IN /\ taken =>
                 /\ CreateResult(user).err = "username already exists"
                 /\ CreateResult(user).Users = stored
           /\ (taken /\ stored[user.Username].ID # user.ID /\ UsernamesOf(user.ID) # {}) =>
                 \A username \in Found(user.ID) :
                     /\ UpdateResult(user, username).err # Nil
                     /\ UpdateResult(user, username).Users = stored

\* C34 witness: after a user "root" was created, creating "root" again and
\* renaming "admin" to "root" are both answered with the error of a taken
\* username.
C34_Witness ==
    /\ userStore.writes > 0
    /\ {"admin", "root"} \subseteq DOMAIN userStore.Users
    /\ userStore.Users["admin"].ID # userStore.Users["root"].ID
    /\ LET user == [userStore.Users["admin"] EXCEPT !.Username = "root",
                                                    !.Role = "user",
                                                    !.Password = DefaultUsers["user"].Password]
       IN /\ user \in RepoUsers
          /\ CreateResult(user).err = "username already exists"
          /\ \A username \in Found(user.ID) :
                UpdateResult(user, username) =
                    [Users |-> userStore.Users, err |-> "new username already exists"]

\* C35: in a repository that started with pairwise distinct user IDs, after
\* any Create, Update and Delete calls no two stored users have the same ID and
\* every key of the map is the Username of the user stored under it.
C35_DistinctIDsAndOwnKeys ==
    /\ \A u, v \in DOMAIN userStore.Users :
          userStore.Users[u].ID = userStore.Users[v].ID => u = v
    /\ \A u \in DOMAIN userStore.Users : userStore.Users[u].Username = u

\* C36: Update(user) and Delete(id) return "user not found" exactly when no
\* stored user has the ID; when a stored user has it, Delete succeeds and
\* Update finds the user.
C36_NotFoundIffNoSuchID ==
    /\ \A user \in RepoUsers : \A username \in Found(user.ID) :
          UpdateResult(user, username).err = "user not found"
              <=> UsernamesOf(user.ID) = {}
    /\ \A id \in 0..4 : \A username \in Found(id) :
          /\ DeleteResult(id, username).err = "user not found" <=> UsernamesOf(id) = {}
          /\ UsernamesOf(id) # {} => DeleteResult(id, username).err = Nil

C38_FallbackOnlyWithoutExpiry ==
    \A tok \in IssuedTokens : \A r \in Reads(3) :
        LET ne == SignedString([tok.claims EXCEPT !.ExpiresAt = NoExp], JWTSecret)
            res == BlacklistResult(tok, r)
        IN /\ redisUp =>
                 BlacklistResult(ne, r) = [err |-> Nil, writes |-> TRUE, ttl |-> 24 * Hour]
           /\ ~redisUp =>
                 BlacklistResult(ne, r) = [err |-> ErrRedis, writes |-> FALSE, ttl |-> 24 * Hour]
           /\ res.writes => res.ttl = tok.claims.ExpiresAt - r[2]

\* C38 witness: an issued token has expired and the store is reachable;
\* BlacklistToken refuses it, and it gives the copy signed without expires_at
\* a record that lasts 24 hours from the clock value of the SET.
C38_Witness ==
    \E tok \in IssuedTokens :
        LET ne == SignedString([tok.claims EXCEPT !.ExpiresAt = NoExp], JWTSecret)
            res == BlacklistResult(ne, Still(3))
        IN /\ redisUp
           /\ now >= tok.claims.ExpiresAt
           /\ ~BlacklistResult(tok, Still(3)).writes
           /\ res.writes
           /\ res.ttl = 24 * Hour
           /\ RedisSet(store, ne.claims.TokenID, res.ttl, now)[ne.claims.TokenID]
                 = now + 24 * 3600 * TicksPerSecond

====
